---- MODULE Spec2Model ----
(***************************************************************************)
(* Model of src/src/server.ts: UDPServer, a UDP listener that records      *)
(* every sender in this.clients, classifies each datagram as joystick      *)
(* JSON or plain text, acknowledges it, and sweeps silent clients with an  *)
(* interval timer.                                                         *)
(*                                                                         *)
(* Time is counted in seconds since the server was constructed (the code   *)
(* counts milliseconds: 60000 and 30000 are 60 and 30 here), the interval  *)
(* timers fire exactly at their deadlines, and the clock is observed at     *)
(* the instants within Slack seconds of a deadline.  Distances are exact    *)
(* decimals (mantissa, number of fraction digits); the rounding of IEEE    *)
(* doubles is not modelled.                                                *)
(*                                                                         *)
(* The socket is "binding" after construction; the bind is resolved on     *)
(* process.nextTick, before any timer, datagram or signal is handled, and  *)
(* so is the "close" event a close of the socket queues.  Senders have     *)
(* ports 1..65535, for which this.server.send raises nothing; a failed     *)
(* send is reported to its callback.                                       *)
(***************************************************************************)
EXTENDS Integers, Sequences, FiniteSets, TLC

(***************************************************************************)
(* JavaScript values, as produced by JSON.parse and by property reads.     *)
(* A string is a sequence of one-character strings.                        *)
(***************************************************************************)
Undefined == [t |-> "undefined"]

Null == [t |-> "null"]

Str(s) == [t |-> "string", v |-> s]

Num(dec) == [t |-> "number", v |-> dec]

Obj(f) == [t |-> "object", v |-> f]

\* The completion of an expression that raised (TypeError, SyntaxError).
Thrown == [t |-> "throw"]

\* Mutant: optional chaining (v?.k), which reads undefined where v.k raises.
GetOptional(v, k) ==
  IF v.t = "throw" THEN Thrown
  ELSE IF v.t = "object" /\ k \in DOMAIN v.v THEN v.v[k]
  ELSE Undefined

\* The property read  v.k  (v[k]) for the keys the server reads.
Get(v, k) ==
  IF v.t \in {"throw", "undefined", "null"} THEN Thrown
  ELSE IF v.t = "object" /\ k \in DOMAIN v.v THEN v.v[k]
  ELSE Undefined

(***************************************************************************)
(* parseFloat.  A decimal is [nan, m, e] and stands for m / 10^e           *)
(* (m * 10^-e when e is negative).                                         *)
(***************************************************************************)
NaN == [nan |-> TRUE, m |-> 0, e |-> 0]

Dec(m, e) == [nan |-> FALSE, m |-> m, e |-> e]

Digits == {"0", "1", "2", "3", "4", "5", "6", "7", "8", "9"}

DigitValue(c) ==
  CASE c = "0" -> 0 [] c = "1" -> 1 [] c = "2" -> 2 [] c = "3" -> 3
    [] c = "4" -> 4 [] c = "5" -> 5 [] c = "6" -> 6 [] c = "7" -> 7
    [] c = "8" -> 8 [] c = "9" -> 9

WhiteSpace == {" "}

RECURSIVE SkipWhiteSpace(_, _)
\* Index of the first character of s at or after i that is not white space.
SkipWhiteSpace(s, i) ==
  IF i <= Len(s) /\ s[i] \in WhiteSpace THEN SkipWhiteSpace(s, i + 1) ELSE i

RECURSIVE DigitRun(_, _)
\* Number of consecutive digits of s starting at index i.
DigitRun(s, i) ==
  IF i <= Len(s) /\ s[i] \in Digits THEN 1 + DigitRun(s, i + 1) ELSE 0

RECURSIVE DigitsValue(_, _, _, _)
\* Value of the n digits of s starting at index i, appended to acc.
DigitsValue(s, i, n, acc) ==
  IF n = 0 THEN acc
  ELSE DigitsValue(s, i + 1, n - 1, acc * 10 + DigitValue(s[i]))

\* parseFloat of a string: the longest prefix (after leading white space)
\* that is a decimal literal  [+-] digits [. digits] [e [+-] digits],
\* NaN when there is none.
ParseFloatString(s) ==
  LET i0 == SkipWhiteSpace(s, 1)
      signed == i0 <= Len(s) /\ s[i0] \in {"+", "-"}
      sign == IF signed /\ s[i0] = "-" THEN -1 ELSE 1
      i1 == IF signed THEN i0 + 1 ELSE i0
      nInt == DigitRun(s, i1)
      i2 == i1 + nInt
      dot == i2 <= Len(s) /\ s[i2] = "."
      nFrac == IF dot THEN DigitRun(s, i2 + 1) ELSE 0
      i3 == IF dot THEN i2 + 1 + nFrac ELSE i2
      expMark == i3 <= Len(s) /\ s[i3] \in {"e", "E"}
      expSigned == expMark /\ i3 + 1 <= Len(s) /\ s[i3 + 1] \in {"+", "-"}
      expSign == IF expSigned /\ s[i3 + 1] = "-" THEN -1 ELSE 1
      i4 == IF expSigned THEN i3 + 2 ELSE i3 + 1
      nExp == IF expMark THEN DigitRun(s, i4) ELSE 0
      exp == expSign * DigitsValue(s, i4, nExp, 0)
      mant == DigitsValue(s, i2 + 1, nFrac, DigitsValue(s, i1, nInt, 0))
  IN  IF nInt + nFrac = 0 THEN NaN
      ELSE Dec(sign * mant, nFrac - exp)

\* parseFloat(v): ToString(v) first.  A number prints as itself; undefined,
\* null and plain objects print as text that is no decimal literal.
ParseFloat(v) ==
  IF v.t = "string" THEN ParseFloatString(v.v)
  ELSE IF v.t = "number" THEN v.v
  ELSE NaN

RECURSIVE Pow10(_)
Pow10(n) == IF n <= 0 THEN 1 ELSE 10 * Pow10(n - 1)

\* Mutant: the threshold written as 1.0.
ExceedsThresholdOne(d) ==
  /\ ~d.nan
  /\ IF d.e >= 0 THEN d.m > Pow10(d.e)
                 ELSE d.m * Pow10(-d.e) > 1

\* Mutant: >= in place of >.
ExceedsThresholdOrEqual(d) ==
  /\ ~d.nan
  /\ IF d.e >= 0 THEN d.m * 10 >= Pow10(d.e)
                 ELSE d.m * Pow10(-d.e) * 10 >= 1

\* d > 0.1  (false for NaN, as every comparison with NaN is).
ExceedsThreshold(d) ==
  /\ ~d.nan
  /\ IF d.e >= 0 THEN d.m * 10 > Pow10(d.e)
                 ELSE d.m * Pow10(-d.e) * 10 > 1

(***************************************************************************)
(* Inputs.                                                                 *)
(***************************************************************************)
\* Horizon of the clock under Spec (seconds since construction).
MaxTime == 120

\* The clock is sampled within Slack seconds of every timer deadline.
Slack == 1

\* Horizon of the clock under SpecMsg.
MsgHorizon == 1

\* Longest time (seconds) one message handler may take between its two
\* readings of the clock.
MaxHandlerTime == 1

\* rinfo of the senders.
Remotes ==
  { [address |-> "192.168.1.10", port |-> 5000],
    [address |-> "192.168.1.10", port |-> 5001] }

NoRemote == [address |-> "", port |-> 0]

\* Texts of the distance field.
Distances ==
  { <<"0", ".", "0">>, <<"0", ".", "1">>, <<"0", ".", "1", "1">>,
    <<"0", ".", "5">>, <<"a", "b", "c">>, <<>>,
    <<"0", ".", "5", "a", "b", "c">> }

\* Distance texts and missing fields of the axes that lack a field.
PartialDistances == {<<"0", ".", "0">>, <<"0", ".", "5">>}

MissingFields == {"x", "angle", "distance"}

AxisFields == {"x", "y", "angle", "distance"}

AxisField(k, d) ==
  CASE k = "x" -> Str(<<"5", "0">>)
    [] k = "y" -> Str(<<"0">>)
    [] k = "angle" -> Str(<<"9", "0">>)
    [] k = "distance" -> Str(d)

\* An axis object with the given fields and distance text d.
Axis(fields, d) == Obj([k \in fields |-> AxisField(k, d)])

\* Axes with all four fields, and axes with one field missing.
FullAxes == {Axis(AxisFields, d) : d \in Distances}

PartialAxes ==
  {Axis(AxisFields \ {k}, d) : k \in MissingFields, d \in PartialDistances}

PartnerAxes == {Axis(AxisFields, d) : d \in PartialDistances}

Frame(l, r) == Obj([left |-> l, right |-> r])

\* A datagram body is either text that JSON.parse rejects (kind "text",
\* payload the text) or the JSON text of a value (kind "json", payload
\* the value it encodes).
Text(s) == [kind |-> "text", payload |-> s]

Json(v) == [kind |-> "json", payload |-> v]

NoMessage == Text("")

ControlFrames == {Json(Frame(l, r)) : l \in FullAxes, r \in FullAxes}

\* Frames with both axes, one or both of them lacking a field.
PartialFrames ==
  {Json(Frame(l, r)) : l \in PartialAxes, r \in PartnerAxes}
    \cup {Json(Frame(l, r)) : l \in PartnerAxes, r \in PartialAxes}
    \cup {Json(Frame(a, a)) : a \in PartialAxes}

\* JSON with no left axis or no right axis, and JSON that is no object.
AxisLessJson ==
  {Json(Obj([left |-> l])) : l \in PartnerAxes}
    \cup {Json(Obj([right |-> r])) : r \in PartnerAxes}
    \cup { Json(Obj([foo |-> Num(Dec(1, 0))])), Json(Num(Dec(5, 1))),
           Json(Str(<<"0", ".", "5">>)), Json(Null) }

\* Bodies that are not JSON: empty, plain text, truncated JSON.
PlainTexts == {Text(""), Text("hello"), Text("{\"left\":{\"x\":\"50\",")}

\* Leaf values that are no strings: the number 0.5 and null.
NonStringLeaves == {Num(Dec(5, 1)), Null}

\* A full axis (distance "0.5") with field k holding the value v.
AxisWith(k, v) ==
  Obj([f \in AxisFields |-> IF f = k THEN v ELSE AxisField(f, <<"0", ".", "5">>)])

\* Frames whose left axis has a leaf that is no string, or is no object.
OddFrames ==
  {Json(Frame(AxisWith(k, v), r)) :
     k \in {"x", "distance"}, v \in NonStringLeaves, r \in PartnerAxes}
    \cup {Json(Frame(v, r)) :
            v \in NonStringLeaves \cup {Str(<<"0", ".", "5">>)}, r \in PartnerAxes}

Messages ==
  ControlFrames \cup PartialFrames \cup AxisLessJson \cup PlainTexts \cup OddFrames

\* A controller at rest and a controller with its left stick moved.
IdleFrame ==
  Json(Frame(Axis(AxisFields, <<"0", ".", "0">>), Axis(AxisFields, <<"0", ".", "0">>)))

ActiveFrame ==
  Json(Frame(Axis(AxisFields, <<"0", ".", "5">>), Axis(AxisFields, <<"0", ".", "0">>)))

RegistryMessages == {IdleFrame, ActiveFrame, Text("hello")}

(***************************************************************************)
(* State.                                                                  *)
(***************************************************************************)
VARIABLES
  now,        \* Date.now(), in seconds since construction
  clients,    \* this.clients: entries [id, lastSeen] in insertion order
  nextSweep,  \* when the cleanup interval timer fires next
  nextStats,  \* when the statistics interval timer fires next
  lastRecv,   \* history: per sender, when its last datagram arrived (-1: never)
  ev,         \* the last event handled and what it emitted
  sock,       \* this.server: "binding", "listening" or "closed"
  pending,    \* the callback process.nextTick holds: "bind", "close" or "none"
  exitOnClose,\* the "close" listener of UDPServer.close is registered
  proc,       \* the process: "running", "exit0" or "exit1"
  fault,      \* history: the "error" event emitted: "none", "bind" or "socket"
  failed      \* history: some send has failed

vars ==
  <<now, clients, nextSweep, nextStats, lastRecv, ev,
    sock, pending, exitOnClose, proc, fault, failed>>

\* The variables of the transport and of the process.
life == <<sock, pending, exitOnClose, proc, fault>>

\* const timeout = 60000 (ms).
Timeout == 60

\* setInterval(() => this.cleanupClients(), 30000).
SweepPeriod == 30

\* setInterval(() => server.getStats(), 60000).
StatsPeriod == 60

\* The sampled instants of the clock: those near a deadline of the cleanup
\* timer (the statistics timer's deadlines are among them).
Instants ==
  {k * SweepPeriod + o : k \in 0..(MaxTime \div SweepPeriod + 1),
                         o \in (0 - Slack)..Slack} \cap (0..MaxTime)

NoEvent ==
  [kind |-> "none", rinfo |-> NoRemote, msg |-> NoMessage, at |-> 0,
   sent |-> <<>>, log |-> <<>>, listing |-> <<>>, errors |-> 0, signal |-> ""]

(***************************************************************************)
(* this.clients: a Map keeps one entry per key, in insertion order.        *)
(***************************************************************************)
MapKeys(m) == {m[i].id : i \in DOMAIN m}

MapHas(m, k) == k \in MapKeys(m)

MapGet(m, k) == m[CHOOSE i \in DOMAIN m : m[i].id = k].lastSeen

\* Mutant: a set records when the entry will expire.
MapSetExpiry(m, k, v) ==
  IF MapHas(m, k)
    THEN [i \in DOMAIN m |->
            IF m[i].id = k THEN [m[i] EXCEPT !.lastSeen = v + Timeout] ELSE m[i]]
    ELSE Append(m, [id |-> k, lastSeen |-> v + Timeout])

\* Mutant: a set records a new key and leaves a known key as it was.
MapSetInsertOnly(m, k, v) ==
  IF MapHas(m, k) THEN m ELSE Append(m, [id |-> k, lastSeen |-> v])

\* Mutant: every set adds an entry.
MapSetAppend(m, k, v) == Append(m, [id |-> k, lastSeen |-> v])

MapSet(m, k, v) ==
  IF MapHas(m, k)
    THEN [i \in DOMAIN m |-> IF m[i].id = k THEN [m[i] EXCEPT !.lastSeen = v] ELSE m[i]]
    ELSE Append(m, [id |-> k, lastSeen |-> v])

MapDelete(m, k) == SelectSeq(m, LAMBDA e : e.id # k)

\* `${rinfo.address}:${rinfo.port}`
ClientId(rinfo) == <<rinfo.address, rinfo.port>>

(***************************************************************************)
(* Responses.                                                              *)
(***************************************************************************)
\* JSON.stringify({status: "received", timestamp: Date.now()})
ControlAck(t) == [shape |-> "control", status |-> "received", timestamp |-> t]

\* `Server received: "${message}" at ${timestamp}`
TextResponse(message, t) == [shape |-> "text", text |-> message, timestamp |-> t]

\* Mutant: the response goes to the port the server listens on.
sendResponseToServerPort(message, rinfo) ==
  <<[address |-> rinfo.address, port |-> 8080, body |-> message]>>

\* sendResponse: one datagram to rinfo.port at rinfo.address.
sendResponse(message, rinfo) ==
  <<[address |-> rinfo.address, port |-> rinfo.port, body |-> message]>>

\* v.padStart(6) completes only on a string; on undefined or null the
\* property read raises, on any other value padStart is not a function.
PadStartThrows(v) == v.t # "string"

\* The logging of one joystick raises when x, y or angle cannot be padded.
AxisLogThrows(axis) ==
  \/ PadStartThrows(Get(axis, "x"))
  \/ PadStartThrows(Get(axis, "y"))
  \/ PadStartThrows(Get(axis, "angle"))

\* handleJoystickData(data, rinfo), its acknowledgment stamped t:
\* whether it raised, and the datagrams it sent.
handleJoystickData(data, rinfo, t) ==
  LET left == Get(data, "left")
      leftText == Get(left, "distance")
      right == Get(data, "right")
      rightText == Get(right, "distance")
      leftDistance == ParseFloat(leftText)
      rightDistance == ParseFloat(rightText)
      leftMoved == ExceedsThreshold(leftDistance)
      rightMoved == ExceedsThreshold(rightDistance)
  IN  IF leftText = Thrown \/ rightText = Thrown
        THEN [threw |-> TRUE, sent |-> <<>>]
      ELSE IF ~(leftMoved \/ rightMoved)
        THEN [threw |-> FALSE, sent |-> <<>>]
      ELSE IF (leftMoved /\ AxisLogThrows(left)) \/ (rightMoved /\ AxisLogThrows(right))
        THEN [threw |-> TRUE, sent |-> <<>>]
      ELSE [threw |-> FALSE, sent |-> sendResponse(ControlAck(t), rinfo)]

\* handleTextMessage(message, rinfo): always echoes.
handleTextMessage(message, rinfo, t) ==
  sendResponse(TextResponse(message, t), rinfo)

\* JSON.parse(message): the value, or a SyntaxError.
JSONParse(message) ==
  IF message.kind = "json" THEN message.payload ELSE Thrown

\* Mutant: only a sender the registry already knows is answered.
onMessageKnownPeers(message, rinfo, t) ==
  LET data == JSONParse(message)
      joy == handleJoystickData(data, rinfo, t)
  IN  IF ~MapHas(clients, ClientId(rinfo)) THEN <<>>
      ELSE IF data = Thrown THEN handleTextMessage(message, rinfo, t)
      ELSE IF joy.threw THEN handleTextMessage(message, rinfo, t)
      ELSE joy.sent

\* The body of the "message" listener after the touch: the datagrams sent.
\* Whatever JSON.parse or handleJoystickData raises lands in the inner
\* catch, which hands the text to handleTextMessage.
onMessage(message, rinfo, t) ==
  LET data == JSONParse(message)
      joy == handleJoystickData(data, rinfo, t)
  IN  IF data = Thrown THEN handleTextMessage(message, rinfo, t)
      ELSE IF joy.threw THEN handleTextMessage(message, rinfo, t)
      ELSE joy.sent

\* Mutant: the listener without its try blocks.
messageListenerUnguarded(message, rinfo, t) ==
  LET data == JSONParse(message)
      joy == handleJoystickData(data, rinfo, t)
      raised == data = Thrown \/ joy.threw
  IN  [sent |-> IF raised THEN <<>> ELSE joy.sent, escaped |-> raised]

\* The "message" listener after the touch: the datagrams handed to
\* this.server.send, and whether an exception leaves the listener.  The
\* outer catch only logs, so nothing raised inside the try leaves it.
messageListener(message, rinfo, t) ==
  [sent |-> onMessage(message, rinfo, t), escaped |-> FALSE]

\* Mutant: a failed send is repeated.
sendCallbackRetry(err, datagrams) ==
  [errors |-> IF err THEN 1 ELSE 0, resent |-> IF err THEN datagrams ELSE <<>>]

\* The callback given to this.server.send: it logs err and does nothing
\* else.  The lines written to console.error, and the datagrams sent again.
sendCallback(err, datagrams) ==
  [errors |-> IF err THEN 1 ELSE 0, resent |-> <<>>]

(***************************************************************************)
(* The transport and the process.                                          *)
(***************************************************************************)
\* this.server.close() of dgram: on a socket already closed it raises
\* ERR_SOCKET_DGRAM_NOT_RUNNING; otherwise the handle is closed at once
\* and the "close" event is queued on process.nextTick.
socketClose(s) ==
  IF s = "closed"
    THEN [sock |-> s, raised |-> TRUE, queued |-> FALSE]
    ELSE [sock |-> "closed", raised |-> FALSE, queued |-> TRUE]

\* Mutant: the "error" listener only logs.
onErrorLogOnly(s) == [sock |-> s, raised |-> FALSE, queued |-> FALSE]

\* The "error" listener: console.error, then this.server.close().
onError(s) == socketClose(s)

\* UDPServer.close(): this.server.close(callback) registers callback as a
\* "close" listener before it closes the socket.
close(s) ==
  LET r == socketClose(s)
  IN  [sock |-> r.sock, raised |-> r.raised, queued |-> r.queued,
       exitOnClose |-> TRUE]

\* The "close" event: the listener of UDPServer.close, when registered,
\* calls process.exit(0).
onClose(registered, p) == IF registered THEN "exit0" ELSE p

\* An exception no listener catches ends the process with status 1.
Uncaught(raised, p) == IF raised THEN "exit1" ELSE p

\* process.on("SIGINT", ...) and process.on("SIGTERM", ...).
Signals == {"SIGINT", "SIGTERM"}

(***************************************************************************)
(* cleanupClients and getStats.                                            *)
(***************************************************************************)
\* Mutant: >= in place of >.
ExpiredAtTimeout(lastSeen, t) == t - lastSeen >= Timeout

\* Mutant: the sweep period taken for the timeout.
ExpiredAfterPeriod(lastSeen, t) == t - lastSeen > SweepPeriod

\* Mutant: the timeout counted from the sweep after the last datagram.
ExpiredLate(lastSeen, t) == t - lastSeen > Timeout + SweepPeriod

\* if (now - lastSeen > timeout)
Expired(lastSeen, t) == t - lastSeen > Timeout

RECURSIVE CleanupLoop(_, _, _, _, _)
\* The for loop over this.clients.entries(), from entry i on: the map and
\* the "Client disconnected" lines so far.
CleanupLoop(entries, i, t, map, log) ==
  IF i > Len(entries) THEN [clients |-> map, log |-> log]
  ELSE IF Expired(entries[i].lastSeen, t)
    THEN CleanupLoop(entries, i + 1, t, MapDelete(map, entries[i].id),
                     Append(log, entries[i].id))
    ELSE CleanupLoop(entries, i + 1, t, map, log)

\* Mutant: the stale clients are logged and kept.
cleanupClientsLogOnly(map, t) ==
  [clients |-> map, log |-> CleanupLoop(map, 1, t, map, <<>>).log]

cleanupClients(map, t) == CleanupLoop(map, 1, t, map, <<>>)

\* The "Connected Clients" lines of getStats: id and seconds since last seen.
getStats(map, t) ==
  [i \in DOMAIN map |-> [id |-> map[i].id, secondsAgo |-> t - map[i].lastSeen]]

\* Mutant: the report drops the clients it finds stale.
statsTimerPruning(map, t) ==
  [clients |-> cleanupClients(map, t).clients, listing |-> getStats(map, t),
   sent |-> <<>>]

\* The callback of the statistics timer: server.getStats() reads
\* this.clients and writes to the console; it sets nothing and sends nothing.
statsTimer(map, t) ==
  [clients |-> map, listing |-> getStats(map, t), sent |-> <<>>]

(***************************************************************************)
(* Events.                                                                 *)
(***************************************************************************)
Min(a, b) == IF a < b THEN a ELSE b

\* A timer fires at its deadline: the clock does not pass a due timer.
NextTimer == Min(nextSweep, nextStats)

Init ==
  /\ now = 0
  /\ clients = <<>>
  /\ nextSweep = SweepPeriod
  /\ nextStats = StatsPeriod
  /\ lastRecv = [r \in Remotes |-> -1]
  /\ ev = NoEvent
  /\ sock = "binding"
  /\ pending = "bind"
  /\ exitOnClose = FALSE
  /\ proc = "running"
  /\ fault = "none"
  /\ failed = FALSE

\* The process runs and process.nextTick holds nothing: timers, datagrams
\* and signals are handled only then.
Idle == proc = "running" /\ pending = "none"

\* Time passes with no event.
Tick(horizon) ==
  /\ Idle
  /\ now < NextTimer
  /\ \E t \in Instants :
       /\ t > now /\ t <= horizon
       /\ \A u \in Instants : u > now => t <= u
       /\ now' = t
  /\ ev' = NoEvent
  /\ UNCHANGED <<clients, nextSweep, nextStats, lastRecv, life, failed>>

\* The bind queued by this.server.bind(this.port) succeeds: "listening".
Listening ==
  /\ proc = "running" /\ pending = "bind"
  /\ sock' = "listening"
  /\ pending' = "none"
  /\ ev' = [NoEvent EXCEPT !.kind = "listening", !.at = now]
  /\ UNCHANGED <<now, clients, nextSweep, nextStats, lastRecv,
                 exitOnClose, proc, fault, failed>>

\* The socket emits "error" and the "error" listener runs.
ErrorEvent(cause) ==
  LET r == onError(sock)
  IN  /\ sock' = r.sock
      /\ pending' = IF r.queued THEN "close" ELSE "none"
      /\ proc' = Uncaught(r.raised, proc)
      /\ fault' = cause
      /\ ev' = [NoEvent EXCEPT !.kind = "error", !.at = now, !.errors = 1]
      /\ UNCHANGED <<now, clients, nextSweep, nextStats, lastRecv,
                     exitOnClose, failed>>

\* The bind queued by this.server.bind(this.port) fails (port in use).
BindError == proc = "running" /\ pending = "bind" /\ ErrorEvent("bind")

\* Receiving fails on the listening socket.
SocketError == Idle /\ sock = "listening" /\ ErrorEvent("socket")

\* SIGINT or SIGTERM arrives: its listener calls server.close().
Signal ==
  /\ Idle
  /\ \E sig \in Signals :
       LET r == close(sock)
       IN  /\ sock' = r.sock
           /\ exitOnClose' = r.exitOnClose
           /\ pending' = IF r.queued THEN "close" ELSE pending
           /\ proc' = Uncaught(r.raised, proc)
           /\ ev' = [NoEvent EXCEPT !.kind = "signal", !.at = now, !.signal = sig]
  /\ UNCHANGED <<now, clients, nextSweep, nextStats, lastRecv, fault, failed>>

\* The "close" event queued by a close of the socket is emitted.
CloseEmitted ==
  /\ proc = "running" /\ pending = "close"
  /\ pending' = "none"
  /\ proc' = onClose(exitOnClose, proc)
  /\ ev' = [NoEvent EXCEPT !.kind = "close", !.at = now]
  /\ UNCHANGED <<now, clients, nextSweep, nextStats, lastRecv,
                 sock, exitOnClose, fault, failed>>

\* The "message" listener runs on a datagram msg from rinfo; d seconds
\* pass between the touch and the stamping of the response; the send,
\* when there is one, fails (err) or not.
Receive(messages, horizon, outcomes) ==
  /\ Idle
  /\ sock = "listening"
  /\ \E rinfo \in Remotes, msg \in messages, d \in 0..MaxHandlerTime :
       /\ now + d <= Min(horizon, NextTimer)
       /\ now + d \in Instants
       /\ \E r \in {messageListener(msg, rinfo, now + d)} :
            \E err \in (IF r.sent = <<>> THEN {FALSE} ELSE outcomes) :
              \E cb \in {sendCallback(err, r.sent)} :
                /\ ev' = [NoEvent EXCEPT !.kind = "message", !.rinfo = rinfo,
                                         !.msg = msg, !.at = now,
                                         !.sent = r.sent \o cb.resent,
                                         !.errors = cb.errors]
                /\ failed' = (failed \/ err)
                /\ proc' = Uncaught(r.escaped, proc)
       /\ clients' = MapSet(clients, ClientId(rinfo), now)
       /\ lastRecv' = [lastRecv EXCEPT ![rinfo] = now]
       /\ now' = now + d
  /\ UNCHANGED <<nextSweep, nextStats, sock, pending, exitOnClose, fault>>

\* The cleanup interval timer fires.
Sweep ==
  /\ Idle
  /\ now = nextSweep
  /\ LET r == cleanupClients(clients, now)
     IN  /\ clients' = r.clients
         /\ ev' = [NoEvent EXCEPT !.kind = "sweep", !.at = now, !.log = r.log]
  /\ nextSweep' = now + SweepPeriod
  /\ UNCHANGED <<now, nextStats, lastRecv, life, failed>>

\* The statistics interval timer fires.
Stats ==
  /\ Idle
  /\ now = nextStats
  /\ LET r == statsTimer(clients, now)
     IN  /\ clients' = r.clients
         /\ ev' = [NoEvent EXCEPT !.kind = "stats", !.at = now,
                                  !.listing = r.listing, !.sent = r.sent]
  /\ nextStats' = now + StatsPeriod
  /\ UNCHANGED <<now, nextSweep, lastRecv, life, failed>>

TickReg == Tick(MaxTime)

\* Datagrams whose responses are all sent.
ReceiveReg == Receive(RegistryMessages, MaxTime, {FALSE})

Next == Listening \/ TickReg \/ ReceiveReg \/ Sweep \/ Stats

\* The server that binds and then runs undisturbed, under datagrams of
\* three kinds, up to MaxTime.
Spec == Init /\ [][Next]_vars

TickMsg == Tick(MsgHorizon)

ReceiveMsg == Receive(Messages, MsgHorizon, {FALSE})

NextMsg == Listening \/ TickMsg \/ ReceiveMsg

\* Spec with time passing and both interval timers firing when due.
SpecFair ==
  Init /\ [][Next]_vars /\ WF_vars(TickReg) /\ WF_vars(Sweep) /\ WF_vars(Stats)

\* The server under every datagram of Messages, up to MsgHorizon (no
\* timer is due that early).
SpecMsg == Init /\ [][NextMsg]_vars

\* Datagrams whose responses are sent or fail to be sent.
ReceiveLife == Receive(RegistryMessages, MaxTime, BOOLEAN)

NextLife ==
  \/ Listening \/ BindError \/ SocketError \/ Signal \/ CloseEmitted
  \/ TickReg \/ ReceiveLife \/ Sweep \/ Stats

\* The whole life of the process: the bind succeeds or fails, the socket
\* may fail later, sends may fail, signals arrive at any time.
SpecLife == Init /\ [][NextLife]_vars

(***************************************************************************)
(* Properties of the message handler (checked under SpecMsg).              *)
(***************************************************************************)
Range(q) == {q[i] : i \in DOMAIN q}

\* The distance text of one axis of a frame with both axes complete.
DistanceText(msg, side) == msg.payload.v[side].v["distance"].v

\* Distance texts that are decimal numbers above 0.1, decimal numbers at
\* or below 0.1, and texts that are no decimal number.
AboveTexts == {<<"0", ".", "1", "1">>, <<"0", ".", "5">>}

AtOrBelowTexts == {<<"0", ".", "0">>, <<"0", ".", "1">>}

MalformedTexts == {<<"a", "b", "c">>, <<>>, <<"0", ".", "5", "a", "b", "c">>}

Handled(msgs) == ev.kind = "message" /\ ev.msg \in msgs

\* Exactly one datagram was sent, to the sender of the handled datagram.
OneReplyToSender ==
  /\ Len(ev.sent) = 1
  /\ ev.sent[1].address = ev.rinfo.address
  /\ ev.sent[1].port = ev.rinfo.port

\* The handled datagram was answered by the text echo of its own body.
TextEchoed ==
  /\ OneReplyToSender
  /\ ev.sent[1].body.shape = "text"
  /\ ev.sent[1].body.text = ev.msg

MovedFrames ==
  {m \in ControlFrames :
     DistanceText(m, "left") \in AboveTexts \/ DistanceText(m, "right") \in AboveTexts}

\* C1: a complete control frame with at least one distance above 0.1 gets
\* exactly one acknowledgment, of the control shape, addressed to its sender,
\* stamped no earlier than the lastSeen the touch recorded for the sender.
C1_MovedFrameAcknowledged ==
  Handled(MovedFrames) =>
    /\ OneReplyToSender
    /\ ev.sent[1].body.shape = "control"
    /\ ev.sent[1].body.status = "received"
    /\ MapHas(clients, ClientId(ev.rinfo))
    /\ MapGet(clients, ClientId(ev.rinfo)) = ev.at
    /\ ev.sent[1].body.timestamp >= MapGet(clients, ClientId(ev.rinfo))

\* A moved right stick alone is acknowledged, with a stamp later than the touch.
C1_Witness ==
  /\ Handled(MovedFrames)
  /\ DistanceText(ev.msg, "left") = <<"0", ".", "0">>
  /\ DistanceText(ev.msg, "right") = <<"0", ".", "1", "1">>
  /\ OneReplyToSender
  /\ ev.sent[1].body.shape = "control"
  /\ ev.sent[1].body.timestamp > ev.at

IdleFrames ==
  {m \in ControlFrames :
     DistanceText(m, "left") \in AtOrBelowTexts /\ DistanceText(m, "right") \in AtOrBelowTexts}

\* C2: a complete control frame with both distances at or below 0.1 (0.1
\* included) is answered by nothing at all, every time it is received.
C2_IdleFrameSilent == Handled(IdleFrames) => ev.sent = <<>>

\* Both distances exactly 0.1, from a sender the registry already knew.
C2_Witness ==
  /\ Handled(IdleFrames)
  /\ DistanceText(ev.msg, "left") = <<"0", ".", "1">>
  /\ DistanceText(ev.msg, "right") = <<"0", ".", "1">>
  /\ ev.sent = <<>>
  /\ Len(clients) = 2
  /\ ev.at > 0

\* C3: a body that is no JSON (empty and truncated included), or JSON with
\* no left or no right axis (a number, a string, null included), is echoed:
\* exactly one text response embedding the body, to the sender, and no
\* control acknowledgment.
C3_UnparsableEchoed == Handled(PlainTexts \cup AxisLessJson) => TextEchoed

\* JSON with a moved left axis and no right axis was echoed as text.
C3_Witness ==
  /\ Handled(AxisLessJson)
  /\ ev.msg = Json(Obj([left |-> Axis(AxisFields, <<"0", ".", "5">>)]))
  /\ TextEchoed

\* C4 (as claimed): a frame with both axes present and a field missing on
\* either axis is always echoed as text.
C4_PartialFrameEchoed == Handled(PartialFrames) => TextEchoed

MalformedIdleFrames ==
  {m \in ControlFrames :
     /\ DistanceText(m, "left") \in MalformedTexts \cup AtOrBelowTexts
     /\ DistanceText(m, "right") \in MalformedTexts \cup AtOrBelowTexts
     /\ \/ DistanceText(m, "left") \in MalformedTexts
        \/ DistanceText(m, "right") \in MalformedTexts}

\* C5 (as claimed): a distance text that is no decimal number counts as
\* zero, so a frame whose distances are malformed or at most 0.1 is
\* answered by nothing.
C5_MalformedDistanceIsZero == Handled(MalformedIdleFrames) => ev.sent = <<>>

(***************************************************************************)
(* Properties of the registry (checked under Spec and SpecFair).           *)
(***************************************************************************)
Id(r) == ClientId(r)

Present(r) == MapHas(clients, Id(r))

\* The remote r has sent, and its last datagram is `age` seconds old.
Age(r) == now - lastRecv[r]

HasSent(r) == lastRecv[r] >= 0

\* When the cleanup timer last fired (0: not yet).
LastSweep == nextSweep - SweepPeriod

Occurrences(q, x) == Cardinality({i \in DOMAIN q : q[i] = x})

\* After a sweep 61 seconds after a client's last datagram the client is
\* gone; after a sweep 29 seconds after it the client is still there.
SweepScenario ==
  ev.kind = "sweep" =>
    \A r \in Remotes :
      /\ HasSent(r) /\ ev.at - lastRecv[r] = 61 => ~Present(r)
      /\ HasSent(r) /\ ev.at - lastRecv[r] = 29 => Present(r)

\* C6: a sweep at time now removes exactly the entries with
\* now - lastSeen > 60, logs each removed identity exactly once and nothing
\* else, and leaves every other entry (age 60 included) as it was; a
\* client touched at t is removed by a sweep at t + 61 and kept by a sweep
\* at t + 29.
C6_SweepRemovesExactlyExpired ==
  /\ []SweepScenario
  /\ [][ev'.kind = "sweep" =>
         /\ \A e \in Range(clients) :
              IF now - e.lastSeen > 60
                THEN /\ ~MapHas(clients', e.id)
                     /\ Occurrences(ev'.log, e.id) = 1
                ELSE /\ MapHas(clients', e.id)
                     /\ MapGet(clients', e.id) = e.lastSeen
                     /\ Occurrences(ev'.log, e.id) = 0
         /\ MapKeys(clients') \subseteq MapKeys(clients)
         /\ Range(ev'.log) \subseteq MapKeys(clients)
         /\ Len(clients') + Len(ev'.log) = Len(clients)]_vars

\* One sweep removed a client last seen 61 seconds before it and kept a
\* client last seen exactly 60 seconds before it.
C6_Witness ==
  /\ ev.kind = "sweep"
  /\ \E r, q \in Remotes :
       /\ HasSent(r) /\ ev.at - lastRecv[r] = 61
       /\ ev.log = <<Id(r)>> /\ ~Present(r)
       /\ HasSent(q) /\ ev.at - lastRecv[q] = 60
       /\ Present(q) /\ MapGet(clients, Id(q)) = lastRecv[q]

NoDuplicateIds ==
  \A i, j \in DOMAIN clients : clients[i].id = clients[j].id => i = j

\* C7: the registry never holds two entries for one identity; a datagram
\* from an unknown identity adds exactly one entry, a datagram from a known
\* identity adds none and overwrites its lastSeen with the receipt time,
\* and no other entry changes.
C7_TouchUpserts ==
  /\ []NoDuplicateIds
  /\ [][ev'.kind = "message" =>
          LET id == ClientId(ev'.rinfo) IN
            /\ Len(clients') = IF MapHas(clients, id) THEN Len(clients)
                                                      ELSE Len(clients) + 1
            /\ Occurrences([i \in DOMAIN clients' |-> clients'[i].id], id) = 1
            /\ MapGet(clients', id) = now
            /\ \A e \in Range(clients) : e.id # id => e \in Range(clients')
            /\ \A e \in Range(clients') : e.id # id => e \in Range(clients)]_vars

\* A known client was touched again later: same size, newer lastSeen, the
\* other client's entry as it was.
C7_Witness ==
  /\ ev.kind = "message"
  /\ Len(clients) = 2
  /\ clients[1].id = ClientId(ev.rinfo)
  /\ clients[1].lastSeen = ev.at
  /\ clients[2].lastSeen < ev.at
  /\ ev.at >= 30

\* The identities the last statistics report listed.
Listed == {ev.listing[i].id : i \in DOMAIN ev.listing}

\* C8: a client whose last datagram came at t0 is in the registry, and in
\* every statistics listing, at every time before t0 + 60; the state after
\* a sweep later than t0 + 60 does not hold it; and while it stays silent
\* after such a sweep no statistics listing includes it.
C8_RoundTrip ==
  \A r \in Remotes :
    HasSent(r) =>
      /\ now < lastRecv[r] + 60 =>
           /\ Present(r)
           /\ ev.kind = "stats" => Id(r) \in Listed
      /\ ev.kind = "sweep" /\ ev.at > lastRecv[r] + 60 => ~Present(r)
      /\ LastSweep > lastRecv[r] + 60 =>
           /\ ~Present(r)
           /\ ev.kind = "stats" => Id(r) \notin Listed

\* A statistics report after the sweep that removed one client lists the
\* other client only.
C8_Witness ==
  /\ ev.kind = "stats"
  /\ \E r, q \in Remotes :
       /\ HasSent(r) /\ LastSweep > lastRecv[r] + 60
       /\ HasSent(q) /\ now < lastRecv[q] + 60
       /\ Listed = {Id(q)}

\* C9 (as claimed): an identity has an entry exactly when its last datagram
\* is at most 60 seconds old.
C9_EntryIffWithinWindow ==
  \A r \in Remotes : Present(r) <=> (HasSent(r) /\ Age(r) <= 60)

\* C9 (amended): an identity has an entry exactly when it has sent and its
\* last datagram was at most 60 seconds old when the cleanup timer last
\* fired; so every identity heard within the last 60 seconds has an entry,
\* and with the timer firing every 30 seconds no entry is for a last
\* datagram older than 90 seconds.
C9_EntryIffFreshAtLastSweep ==
  \A r \in Remotes :
    /\ Present(r) <=> (HasSent(r) /\ LastSweep - lastRecv[r] <= 60)
    /\ HasSent(r) /\ Age(r) <= 60 => Present(r)
    /\ Present(r) => Age(r) <= 90 /\ MapGet(clients, Id(r)) = lastRecv[r]

\* An entry whose last datagram is 89 seconds old, next to a client removed
\* by an earlier sweep.
C9_Witness ==
  \E r, q \in Remotes :
    /\ Present(r) /\ Age(r) = 89
    /\ HasSent(q) /\ ~Present(q)

\* C10: a client is removed only by a sweep, more than 60 and at most 90
\* seconds after its last datagram; the state after a sweep more than 60
\* seconds after the last datagram does not hold it; it is held for the 60
\* seconds after its last datagram, across the sweeps that fire in them;
\* and with the timers firing, a client that stays silent is eventually
\* removed (a client heard 90 seconds or more before MaxTime is removed,
\* unless it is heard again less than 90 seconds before MaxTime).
C10_EvictedWithinNinety ==
  /\ [][\A r \in Remotes :
          MapHas(clients, Id(r)) /\ ~MapHas(clients', Id(r)) =>
            /\ ev'.kind = "sweep"
            /\ now - lastRecv[r] > 60
            /\ now - lastRecv[r] <= 90]_vars
  /\ [](\A r \in Remotes :
          /\ ev.kind = "sweep" /\ HasSent(r) /\ ev.at - lastRecv[r] > 60 => ~Present(r)
          /\ HasSent(r) /\ Age(r) <= 60 => Present(r))
  /\ \A r \in Remotes :
       (HasSent(r) /\ lastRecv[r] <= MaxTime - 90)
         ~> (~Present(r) \/ lastRecv[r] > MaxTime - 90)

\* A client was removed by the sweep exactly 90 seconds after its last
\* datagram, having survived the sweeps 30 and 60 seconds after it.
C10_Witness ==
  /\ ev.kind = "sweep"
  /\ \E r \in Remotes :
       /\ HasSent(r) /\ ev.at - lastRecv[r] = 90
       /\ Id(r) \in Range(ev.log)
       /\ ~Present(r)

(***************************************************************************)
(* Properties of the transport and of the process (checked under SpecLife).*)
(***************************************************************************)
\* C11: whatever the state of the transport when SIGINT or SIGTERM arrives
\* (listening, or already closed by a transport error), the request closes
\* the transport and then ends the process with success: after the signal
\* the transport is closed and the exit awaits the "close" event, the
\* process exits with success only from that event, and it never ends
\* with a failure status on an error nobody caught.
C11_SignalExitsGracefully ==
  /\ proc # "exit1"
  /\ ev.kind = "signal" => sock = "closed" /\ proc = "running" /\ pending = "close"
  /\ proc = "exit0" => sock = "closed" /\ ev.kind = "close"

\* What each datagram of RegistryMessages is answered with.
Expected(msg) ==
  CASE msg = IdleFrame -> "none"
    [] msg = ActiveFrame -> "control"
    [] OTHER -> "text"

Shape(sent) == IF sent = <<>> THEN "none" ELSE sent[1].body.shape

\* The entries of every sender but r are what they were.
OthersKept(r) ==
  \A q \in Remotes \ {r} :
    /\ Present(q)' = Present(q)
    /\ Present(q) => MapGet(clients', Id(q)) = MapGet(clients, Id(q))

\* C12: a failed send is logged and discarded.  Once a send has failed,
\* every datagram (the one whose response failed, and every later one) is
\* still answered by at most one send, never a repeated one, with the
\* response its payload calls for; the failure is logged at most once per
\* send; the sender's entry holds the receipt time and the other entries
\* are untouched, as when the send succeeds; the listener stays up.
C12_SendFailureDiscarded ==
  /\ [](ev.kind = "message" /\ failed =>
          /\ Len(ev.sent) <= 1
          /\ Shape(ev.sent) = Expected(ev.msg)
          /\ ev.sent # <<>> => OneReplyToSender
          /\ ev.errors <= Len(ev.sent)
          /\ Present(ev.rinfo)
          /\ MapGet(clients, Id(ev.rinfo)) = ev.at
          /\ sock = "listening"
          /\ proc = "running")
  /\ [][ev'.kind = "message" /\ failed' => OthersKept(ev'.rinfo)]_vars

\* The send of one response failed, and a later datagram of the same
\* sender is acknowledged with no error.
C12_Witness ==
  /\ ev.kind = "message"
  /\ failed
  /\ ev.errors = 0
  /\ ev.msg = ActiveFrame
  /\ Shape(ev.sent) = "control"
  /\ Len(clients) = 1
  /\ now > 0


(***************************************************************************)
(* Containment of the errors of one datagram (checked under SpecMsg).      *)
(***************************************************************************)
\* The process runs, the socket listens and no callback is queued: the
\* next datagram will be received.
Accepting == proc = "running" /\ sock = "listening" /\ pending = "none"

\* C13: whatever the payload (text that is no JSON, JSON of another shape,
\* frames lacking fields, leaves that are no strings, distances that are
\* no numbers), handling a datagram completes: it ends neither the process
\* nor the listener, which goes on accepting datagrams, and it leaves the
\* registry as it was except for the sender's entry, set to the receipt time.
C13_DatagramErrorsContained ==
  /\ [](ev.kind = "message" =>
          /\ Accepting
          /\ fault = "none"
          /\ Present(ev.rinfo)
          /\ MapGet(clients, Id(ev.rinfo)) = ev.at)
  /\ [][ev'.kind = "message" =>
          /\ OthersKept(ev'.rinfo)
          /\ Len(clients') = Cardinality(MapKeys(clients) \cup {Id(ev'.rinfo)})]_vars

\* A frame whose x is a number makes padStart raise; it is handled as text
\* while another sender's entry stays in the registry.
C13_Witness ==
  /\ Handled(OddFrames)
  /\ Get(Get(ev.msg.payload, "left"), "x") = Num(Dec(5, 1))
  /\ Shape(ev.sent) = "text"
  /\ Accepting
  /\ Len(clients) = 2
  /\ \E q \in Remotes \ {ev.rinfo} : MapGet(clients, Id(q)) < ev.at


(***************************************************************************)
(* Transport errors (checked under SpecLife).                              *)
(***************************************************************************)
\* C14: the "error" listener closes the transport in the event that
\* reports the error; the socket never leaves the closed state again (no
\* second bind, no "listening"); and once it is closed no datagram is
\* received, touched, classified or acknowledged.
C14_TransportErrorCloses ==
  /\ [](ev.kind = "error" => sock = "closed")
  /\ [](fault # "none" => sock = "closed" /\ ev.kind \notin {"message", "listening"})
  /\ [][sock = "closed" =>
          /\ sock' = "closed"
          /\ ev'.kind # "message"
          /\ ev'.sent = <<>>
          /\ lastRecv' = lastRecv]_vars

\* Receiving failed on a socket that had served two senders.
C14_Witness ==
  /\ ev.kind = "error"
  /\ fault = "socket"
  /\ sock = "closed"
  /\ proc = "running"
  /\ Len(clients) = 2


\* C15: a bind failure ends the process, and nothing else does without a
\* signal: after a failed bind the process does not stay alive with the
\* transport closed while the cleanup and statistics timers go on firing,
\* and no datagram and no failed send ends the process.
C15_OnlyBindFailureFatal ==
  /\ fault = "bind" /\ proc = "running" => ev.kind \notin {"sweep", "stats"}
  /\ ev.kind = "message" => proc = "running"


(***************************************************************************)
(* Observers and ordering (checked under Spec).                            *)
(***************************************************************************)
\* C16: the statistics report reads the registry and changes nothing: the
\* registry, the clock, the deadline of the cleanup timer, the transport
\* and the process are after the report what they were before it, so every
\* later touch and sweep starts from the state it would have started from
\* without the report; and the report sends nothing.
C16_StatsReadOnly ==
  [][ev'.kind = "stats" =>
       /\ clients' = clients
       /\ ev'.sent = <<>>
       /\ now' = now
       /\ nextSweep' = nextSweep
       /\ lastRecv' = lastRecv
       /\ life' = life
       /\ Len(ev'.listing) = Len(clients)]_vars

\* A report that lists an entry older than the timeout and leaves it in
\* the registry, for the sweep due at the same instant.
C16_Witness ==
  /\ ev.kind = "stats"
  /\ now = nextSweep
  /\ Len(clients) = 2
  /\ \E i \in DOMAIN ev.listing : ev.listing[i].secondsAgo > Timeout

\* C17: every datagram touches the registry before it is classified,
\* whatever its payload and whether or not it is acknowledged: after the
\* handler the sender's entry holds the receipt time, so a response is
\* never stamped before the entry it follows, and a frame at rest, which
\* gets no response, refreshes the entry all the same.  An entry leaves the
\* registry only in a sweep more than 60 after its sender's last datagram
\* of any kind, so a peer whose datagrams are never more than 60 apart is
\* never evicted.
C17_TouchBeforeClassification ==
  /\ [](ev.kind = "message" =>
          /\ Present(ev.rinfo)
          /\ MapGet(clients, Id(ev.rinfo)) = ev.at
          /\ lastRecv[ev.rinfo] = ev.at
          /\ ev.msg = IdleFrame => ev.sent = <<>>
          /\ ev.sent # <<>> => ev.sent[1].body.timestamp >= ev.at)
  /\ [][\A r \in Remotes :
          Present(r) /\ ~Present(r)' =>
            ev'.kind = "sweep" /\ now - lastRecv[r] > Timeout]_vars

\* After the sweep at 90 a frame at rest refreshes the entry of a sender,
\* first in the registry, that has been there since before the other
\* sender's last datagram, itself older than 60 by then.
C17_Witness ==
  /\ ev.kind = "message"
  /\ ev.msg = IdleFrame
  /\ ev.sent = <<>>
  /\ ev.at > 3 * SweepPeriod
  /\ Len(clients) = 2
  /\ clients[1].id = Id(ev.rinfo)
  /\ clients[1].lastSeen = ev.at
  /\ clients[2].lastSeen < 2 * SweepPeriod


\* C18: whether a datagram is answered, with which response and to whom
\* is a function of its payload and its sender alone: in every reachable
\* state, whatever the registry holds, whatever was received before and
\* whatever the sweeps removed, a frame at rest gets no response, a frame
\* with a moved stick gets the control response and a text gets the text
\* response, addressed to the sender of that datagram.
C18_DecisionFromDatagramAlone ==
  ev.kind = "message" =>
    /\ Shape(ev.sent) = Expected(ev.msg)
    /\ ev.sent # <<>> => OneReplyToSender
    /\ Shape(ev.sent) = "text" => ev.sent[1].body.text = ev.msg

\* The control response to a sender that is last in the registry, after
\* the sweep at 90, while the other sender's entry is older than the timeout.
C18_Witness ==
  /\ ev.kind = "message"
  /\ ev.msg = ActiveFrame
  /\ Shape(ev.sent) = "control"
  /\ ev.at > 3 * SweepPeriod
  /\ Len(clients) = 2
  /\ clients[2].id = Id(ev.rinfo)
  /\ now - clients[1].lastSeen > Timeout


\* C19: the clock never runs backwards, and no entry of the registry holds
\* a lastSeen later than the clock: the age of every entry, as the sweep
\* computes it and as the statistics report prints it, is never negative.
C19_NoFutureLastSeen ==
  /\ [][now' >= now]_vars
  /\ [](\A i \in DOMAIN clients : now - clients[i].lastSeen >= 0)
  /\ [](\A i \in DOMAIN ev.listing : ev.listing[i].secondsAgo >= 0)
  /\ [](\A r \in Remotes : HasSent(r) => Age(r) >= 0)

\* An entry touched at this very instant (age 0) next to an older one.
C19_Witness ==
  /\ ev.kind = "message"
  /\ Len(clients) = 2
  /\ clients[2].lastSeen = now
  /\ clients[1].lastSeen < now
  /\ now > Timeout

(***************************************************************************)
(* Where datagrams are sent from (checked under SpecLife).                 *)
(***************************************************************************)
\* C20: the server sends only in reply to the datagram it is handling: at
\* most one datagram per received datagram (never the control response and
\* the text response both), addressed to the address and port that datagram
\* came from; the cleanup timer, the statistics timer, the "error"
\* listener, the signal listeners and the "close" callback send nothing.
C20_SendsOnlyInReply ==
  /\ Len(ev.sent) <= 1
  /\ ev.kind # "message" => ev.sent = <<>>
  /\ ev.sent # <<>> => OneReplyToSender
  /\ ev.sent # <<>> => ev.sent[1].body.shape \in {"control", "text"}

\* The one reply goes to the sender of the datagram, second of two
\* senders in the registry, and its send fails.
C20_Witness ==
  /\ ev.kind = "message"
  /\ ev.msg = Text("hello")
  /\ OneReplyToSender
  /\ ev.errors = 1
  /\ Len(clients) = 2
  /\ clients[2].id = Id(ev.rinfo)


====
